---- MODULE Spec2Model ----
(***************************************************************************)
(* Model of src/src/main.rs: the program creates the I2S transmit driver,  *)
(* mounts the SD card, opens the WAV file, reads and decodes its 44-byte   *)
(* header, times one 1024-byte read, and then streams the file to the I2S  *)
(* driver in 1024-byte chunks.  main() is one sequential function; pc is   *)
(* its position, and every fallible call is one action with a success and  *)
(* a failure outcome ('?' returns Err from main, unwrap/expect panic).     *)
(*                                                                         *)
(* The SD-card file follows embedded_sdmmc: read() fills the buffer until  *)
(* it is full or the end of the file is reached and returns the count;     *)
(* file_seek_from_start() fails for an offset beyond the file length.      *)
(***************************************************************************)
EXTENDS Integers, Sequences, FiniteSets, TLC

\* ------------------------------------------------------------------ bounds
MaxChunks == 3          \* data sections span up to MaxChunks chunk buffers
MaxSpin == 2            \* zero-length reads recorded before counters saturate
LogCap == MaxChunks + MaxSpin + 2

\* ------------------------------------------------------- program constants
SAMPLE_RATE_HZ == 44100
BYTES_IN_HEADER == 44
CHUNK_SIZE == 1024
FAKE_BUFFER_SIZE == 1024

\* ------------------------------------------------------------ byte helpers
Min(a, b) == IF a < b THEN a ELSE b

RECURSIVE Pow256(_)
Pow256(k) == IF k = 0 THEN 1 ELSE 256 * Pow256(k - 1)

\* little-endian encoding of n in w bytes (how the file stores integers)
ToLeBytes(n, w) == [i \in 1..w |-> (n \div Pow256(i - 1)) % 256]

\* u16::from_le_bytes / u32::from_le_bytes
RECURSIVE FromLeBytes(_)
FromLeBytes(b) ==
    IF Len(b) = 0 THEN 0 ELSE b[1] + 256 * FromLeBytes(Tail(b))

IsCont(b) == b >= 128 /\ b <= 191

\* std::str::from_utf8(..).is_ok() on a byte sequence
RECURSIVE IsUtf8(_)
IsUtf8(b) ==
    IF Len(b) = 0 THEN TRUE
    ELSE LET c == b[1] IN
      IF c <= 127 THEN IsUtf8(Tail(b))
      ELSE IF c >= 194 /\ c <= 223
        THEN Len(b) >= 2 /\ IsCont(b[2]) /\ IsUtf8(SubSeq(b, 3, Len(b)))
      ELSE IF c >= 224 /\ c <= 239
        THEN /\ Len(b) >= 3
             /\ IsCont(b[2]) /\ IsCont(b[3])
             /\ (c = 224 => b[2] >= 160)
             /\ (c = 237 => b[2] <= 159)
             /\ IsUtf8(SubSeq(b, 4, Len(b)))
      ELSE IF c >= 240 /\ c <= 244
        THEN /\ Len(b) >= 4
             /\ IsCont(b[2]) /\ IsCont(b[3]) /\ IsCont(b[4])
             /\ (c = 240 => b[2] >= 144)
             /\ (c = 244 => b[2] <= 143)
             /\ IsUtf8(SubSeq(b, 5, Len(b)))
      ELSE FALSE

\* ------------------------------------------------------ the WAV file input
TagRIFF == <<82, 73, 70, 70>>
TagWAVE == <<87, 65, 86, 69>>
TagFmt == <<102, 109, 116, 32>>
TagData == <<100, 97, 116, 97>>

\* the fixed 44-byte layout the decoder of main() reads back
WavHeaderBytes(riff, fsize, wave, fmt, chans, rate, bits, dtag, dsize) ==
    riff \o ToLeBytes(fsize, 4) \o wave \o fmt \o ToLeBytes(16, 4)
         \o ToLeBytes(1, 2) \o ToLeBytes(chans, 2) \o ToLeBytes(rate, 4)
         \o ToLeBytes(rate * chans * (bits \div 8), 4)
         \o ToLeBytes(chans * (bits \div 8), 2) \o ToLeBytes(bits, 2)
         \o dtag \o ToLeBytes(dsize, 4)

\* (sample rate, bits per sample, channels) of the files tried
Formats ==
    { <<44100, 16, 1>>, <<22050, 16, 1>>, <<48000, 16, 2>>,
      <<44100, 8, 1>>, <<44100, 16, 3>> }

\* a tag with one byte replaced: 88 is ASCII 'X', 255 is never valid UTF-8
Corrupt(tag, byte) == [tag EXCEPT ![2] = byte]
TagVariants ==
    { <<TagRIFF, TagWAVE, TagFmt, TagData>> } \cup
    UNION { { <<Corrupt(TagRIFF, x), TagWAVE, TagFmt, TagData>>,
              <<TagRIFF, Corrupt(TagWAVE, x), TagFmt, TagData>>,
              <<TagRIFF, TagWAVE, Corrupt(TagFmt, x), TagData>>,
              <<TagRIFF, TagWAVE, TagFmt, Corrupt(TagData, x)>> }
            : x \in {88, 255} }

\* declared sizes of the data section
DataSizes ==
    { k * CHUNK_SIZE + r : k \in 0..(MaxChunks - 1), r \in {0, 1, 452, 1023} }

\* file lengths tried for a declared data size s: exact, with trailing
\* bytes after the data section, with the data section cut short, and
\* shorter than the header
FileLens(s) ==
    { BYTES_IN_HEADER + s, BYTES_IN_HEADER + s + 1, BYTES_IN_HEADER + s + 600,
      BYTES_IN_HEADER + s + CHUNK_SIZE, 20, 43 }
    \cup (IF s >= 1 THEN { BYTES_IN_HEADER + s - 1 } ELSE {})
    \cup (IF s >= 500 THEN { BYTES_IN_HEADER + s - 500 } ELSE {})

Zeros(n) == [i \in 1..n |-> 0]

VARIABLES
    pc,             \* position in main()
    file_len,       \* length of the WAV file on the card
    file_hdr,       \* the first min(44, file_len) bytes of the file
    cursor,         \* current offset of the open file
    header,         \* the header buffer, [0u8; 44]
    header_read,    \* count returned by the header read (main discards it)
    hdr,            \* the decoded header fields
    probe_read,     \* _bytes_read of the timing read
    data_read,      \* data_read
    bytes_read,     \* bytes_read
    buf_off,        \* file offset the chunk buffer contents were read from
    i2s_cfg,        \* configuration the I2S driver was created with
    tx_enabled,     \* the I2S transmit channel is enabled
    cfg_calls,      \* I2sDriver::new_std_tx calls
    enable_calls,   \* tx_enable calls
    disable_calls,  \* tx_disable calls
    data_reads,     \* file reads after the header read (saturating)
    writes,         \* write_all calls: <<file offset, length>> (capped log)
    eof_seen,       \* a read in the loop returned 0 with data outstanding
    after_eof,      \* file reads made after such a read (saturating)
    after_disable   \* seek/read/enable/write calls made after tx_disable

vars == << pc, file_len, file_hdr, cursor, header, header_read, hdr,
           probe_read, data_read, bytes_read, buf_off, i2s_cfg, tx_enabled,
           cfg_calls, enable_calls, disable_calls, data_reads, writes,
           eof_seen, after_eof, after_disable >>

NoHdr == [decoded |-> FALSE]
NoCfg == [created |-> FALSE]

Bump(n) == IF n < LogCap THEN n + 1 ELSE n
Log(w, e) == IF Len(w) < LogCap THEN Append(w, e) ELSE w

Init ==
    /\ pc = "start"
    /\ \E f \in Formats, t \in TagVariants, s \in DataSizes :
         \E l \in FileLens(s) :
           /\ file_len = l
           /\ file_hdr = SubSeq(
                WavHeaderBytes(t[1], (BYTES_IN_HEADER + s) - 8, t[2], t[3],
                               f[3], f[1], f[2], t[4], s),
                1, Min(BYTES_IN_HEADER, l))
    /\ cursor = 0
    /\ header = Zeros(BYTES_IN_HEADER)
    /\ header_read = 0
    /\ hdr = NoHdr
    /\ probe_read = 0
    /\ data_read = 0
    /\ bytes_read = 0
    /\ buf_off = 0
    /\ i2s_cfg = NoCfg
    /\ tx_enabled = FALSE
    /\ cfg_calls = 0
    /\ enable_calls = 0
    /\ disable_calls = 0
    /\ data_reads = 0
    /\ writes = << >>
    /\ eof_seen = FALSE
    /\ after_eof = 0
    /\ after_disable = 0

\* ---------------------------------------------------------------- library
\* embedded_sdmmc read(): bytes delivered for a buffer of cap bytes
ReadLen(cap) == Min(cap, file_len - cursor)

\* embedded_sdmmc file_seek_from_start(): offsets beyond the length fail
SeekOk(off) == off <= file_len

AfterDisable == IF disable_calls > 0 THEN Bump(after_disable) ELSE after_disable
AfterEof == IF eof_seen THEN Bump(after_eof) ELSE after_eof


\* ------------------------------------------------------------------ set-up
fileVars == << file_len, file_hdr >>
hdrVars == << header, header_read, hdr >>
loopVars == << data_read, bytes_read, buf_off >>
sinkVars == << i2s_cfg, tx_enabled, cfg_calls, enable_calls, disable_calls >>
obsVars == << data_reads, writes, eof_seen, after_eof, after_disable >>

\* Peripherals::take()? and the SPI device driver, each ending main with '?'
CreateSpi ==
    /\ pc = "start"
    /\ \E ok \in BOOLEAN : pc' = IF ok THEN "create_i2s" ELSE "returned_err"
    /\ UNCHANGED << fileVars, cursor, hdrVars, probe_read, loopVars,
                    sinkVars, obsVars >>

\* I2sDriver::new_std_tx with the StdConfig built from SAMPLE_RATE_HZ,
\* DataBitWidth::Bits16 and SlotMode::Mono
CreateI2s ==
    /\ pc = "create_i2s"
    /\ cfg_calls' = cfg_calls + 1
    /\ \E ok \in BOOLEAN :
         IF ok
           THEN /\ i2s_cfg' = [created |-> TRUE, rate |-> SAMPLE_RATE_HZ,
                               bits |-> 16, channels |-> 1]
                /\ pc' = "init_sdcard"
           ELSE /\ i2s_cfg' = i2s_cfg
                /\ pc' = "returned_err"
    /\ UNCHANGED << fileVars, cursor, hdrVars, probe_read, loopVars,
                    tx_enabled, enable_calls, disable_calls, obsVars >>

\* PinDriver::output, SdCard::new, sdcard.num_bytes()
InitSdCard ==
    /\ pc = "init_sdcard"
    /\ \E ok \in BOOLEAN : pc' = IF ok THEN "open_file" ELSE "returned_err"
    /\ UNCHANGED << fileVars, cursor, hdrVars, probe_read, loopVars,
                    sinkVars, obsVars >>

\* open_volume, open_root_dir, open_file_in_dir(.., Mode::ReadOnly)
OpenFile ==
    /\ pc = "open_file"
    /\ \E ok \in BOOLEAN :
         IF ok THEN pc' = "read_header" /\ cursor' = 0
               ELSE pc' = "returned_err" /\ cursor' = cursor
    /\ UNCHANGED << fileVars, hdrVars, probe_read, loopVars, sinkVars,
                    obsVars >>

\* ------------------------------------------------------------------ header
\* volume_mgr.read(wav_file, &mut header).expect(..): the count is dropped
ReadHeader ==
    /\ pc = "read_header"
    /\ \E ok \in BOOLEAN :
         IF ok
           THEN LET n == ReadLen(BYTES_IN_HEADER) IN
                /\ header' = SubSeq(file_hdr, cursor + 1, cursor + n)
                               \o SubSeq(header, n + 1, BYTES_IN_HEADER)
                /\ header_read' = n
                /\ cursor' = cursor + n
                /\ pc' = "decode"
           ELSE /\ pc' = "panicked"
                /\ UNCHANGED << header, header_read, cursor >>
    /\ UNCHANGED << fileVars, hdr, probe_read, loopVars, sinkVars, obsVars >>

\* the thirteen field decodings; from_utf8(..).unwrap() panics on a tag
\* that is not UTF-8, nothing compares a tag or a value with anything
DecodeHeader ==
    /\ pc = "decode"
    /\ IF /\ IsUtf8(SubSeq(header, 1, 4))
          /\ IsUtf8(SubSeq(header, 9, 12))
          /\ IsUtf8(SubSeq(header, 13, 16))
          /\ IsUtf8(SubSeq(header, 37, 40))
         THEN /\ hdr' = [ decoded |-> TRUE,
                          riff_id |-> SubSeq(header, 1, 4),
                          file_size |-> FromLeBytes(SubSeq(header, 5, 8)),
                          file_type |-> SubSeq(header, 9, 12),
                          chunk_format |-> SubSeq(header, 13, 16),
                          size_of_format_section |->
                              FromLeBytes(SubSeq(header, 17, 20)),
                          format |-> FromLeBytes(SubSeq(header, 21, 22)),
                          num_of_channels |->
                              FromLeBytes(SubSeq(header, 23, 24)),
                          sampling_rate |->
                              FromLeBytes(SubSeq(header, 25, 28)),
                          byte_rate |-> FromLeBytes(SubSeq(header, 29, 32)),
                          block_align |-> FromLeBytes(SubSeq(header, 33, 34)),
                          bits_per_sample |->
                              FromLeBytes(SubSeq(header, 35, 36)),
                          data_section_id |-> SubSeq(header, 37, 40),
                          size_of_data |->
                              FromLeBytes(SubSeq(header, 41, 44)) ]
              /\ pc' = "seek_probe"
         ELSE /\ hdr' = hdr
              /\ pc' = "panicked"
    /\ UNCHANGED << fileVars, cursor, header, header_read, probe_read,
                    loopVars, sinkVars, obsVars >>

\* ------------------------------------------------------------ timing probe
\* file_seek_from_start(wav_file, 44).expect("failed to seek")
SeekProbe ==
    /\ pc = "seek_probe"
    /\ after_disable' = AfterDisable
    /\ \E ok \in BOOLEAN :
         IF ok /\ SeekOk(BYTES_IN_HEADER)
           THEN cursor' = BYTES_IN_HEADER /\ pc' = "probe"
           ELSE cursor' = cursor /\ pc' = "panicked"
    /\ UNCHANGED << fileVars, hdrVars, probe_read, loopVars, sinkVars,
                    data_reads, writes, eof_seen, after_eof >>

\* let _bytes_read = volume_mgr.read(wav_file, &mut fake_buffer).expect(..)
ProbeRead ==
    /\ pc = "probe"
    /\ data_reads' = Bump(data_reads)
    /\ after_disable' = AfterDisable
    /\ \E ok \in BOOLEAN :
         IF ok
           THEN /\ probe_read' = ReadLen(FAKE_BUFFER_SIZE)
                /\ cursor' = cursor + ReadLen(FAKE_BUFFER_SIZE)
                /\ pc' = "seek_data"
           ELSE /\ pc' = "panicked"
                /\ UNCHANGED << probe_read, cursor >>
    /\ UNCHANGED << fileVars, hdrVars, loopVars, sinkVars, writes, eof_seen,
                    after_eof >>

\* ---------------------------------------------------------------- playback
\* a seek that leaves the file index where the timing read put it
SeekDataNoReposition ==
    /\ pc = "seek_data"
    /\ after_disable' = AfterDisable
    /\ data_read' = 0
    /\ \E ok \in BOOLEAN :
         IF ok /\ SeekOk(BYTES_IN_HEADER)
           THEN cursor' = cursor /\ pc' = "tx_enable"
           ELSE cursor' = cursor /\ pc' = "returned_err"
    /\ UNCHANGED << fileVars, hdrVars, probe_read, bytes_read, buf_off,
                    sinkVars, data_reads, writes, eof_seen, after_eof >>

\* let mut data_read = 0; file_seek_from_start(wav_file, 44).map_err(..)?
SeekData ==
    /\ pc = "seek_data"
    /\ after_disable' = AfterDisable
    /\ data_read' = 0
    /\ \E ok \in BOOLEAN :
         IF ok /\ SeekOk(BYTES_IN_HEADER)
           THEN cursor' = BYTES_IN_HEADER /\ pc' = "tx_enable"
           ELSE cursor' = cursor /\ pc' = "returned_err"
    /\ UNCHANGED << fileVars, hdrVars, probe_read, bytes_read, buf_off,
                    sinkVars, data_reads, writes, eof_seen, after_eof >>

\* i2s.tx_enable().unwrap()
TxEnable ==
    /\ pc = "tx_enable"
    /\ enable_calls' = enable_calls + 1
    /\ after_disable' = AfterDisable
    /\ \E ok \in BOOLEAN :
         IF ok THEN tx_enabled' = TRUE /\ pc' = "loop"
               ELSE tx_enabled' = tx_enabled /\ pc' = "panicked"
    /\ UNCHANGED << fileVars, cursor, hdrVars, probe_read, loopVars,
                    i2s_cfg, cfg_calls, disable_calls, data_reads, writes,
                    eof_seen, after_eof >>

\* while data_read < (size_of_data) as usize
LoopTest ==
    /\ pc = "loop"
    /\ pc' = IF data_read < hdr.size_of_data THEN "read" ELSE "tx_disable"
    /\ UNCHANGED << fileVars, cursor, hdrVars, probe_read, loopVars,
                    sinkVars, obsVars >>

\* bytes_read = volume_mgr.read(wav_file, &mut buffer).map_err(..)?;
\* data_read += bytes_read
LoopRead ==
    /\ pc = "read"
    /\ data_reads' = Bump(data_reads)
    /\ after_disable' = AfterDisable
    /\ after_eof' = AfterEof
    /\ \E ok \in BOOLEAN :
         IF ok
           THEN LET n == ReadLen(CHUNK_SIZE) IN
                /\ bytes_read' = n
                /\ data_read' = data_read + n
                /\ buf_off' = cursor
                /\ cursor' = cursor + n
                /\ eof_seen' = (eof_seen \/ n = 0)
                /\ pc' = "write"
           ELSE /\ pc' = "returned_err"
                /\ UNCHANGED << bytes_read, data_read, buf_off, cursor,
                                eof_seen >>
    /\ UNCHANGED << fileVars, hdrVars, probe_read, sinkVars, writes >>

\* i2s.write_all(&buffer[..bytes_read], BLOCK_TIME.into()).map_err(..)?
LoopWrite ==
    /\ pc = "write"
    /\ after_disable' = AfterDisable
    /\ \E ok \in BOOLEAN :
         IF ok
           THEN /\ writes' = Log(writes, << buf_off, bytes_read >>)
                /\ pc' = "loop"
           ELSE /\ writes' = writes
                /\ pc' = "returned_err"
    /\ UNCHANGED << fileVars, cursor, hdrVars, probe_read, loopVars,
                    sinkVars, data_reads, eof_seen, after_eof >>

\* a disable placed inside the loop: control goes back to the loop test
TxDisableInLoop ==
    /\ pc = "tx_disable"
    /\ disable_calls' = disable_calls + 1
    /\ \E ok \in BOOLEAN :
         IF ok THEN tx_enabled' = FALSE /\ pc' = "loop"
               ELSE tx_enabled' = tx_enabled /\ pc' = "panicked"
    /\ UNCHANGED << fileVars, cursor, hdrVars, probe_read, loopVars,
                    i2s_cfg, cfg_calls, enable_calls, obsVars >>

\* i2s.tx_disable().unwrap()
TxDisable ==
    /\ pc = "tx_disable"
    /\ disable_calls' = disable_calls + 1
    /\ \E ok \in BOOLEAN :
         IF ok THEN tx_enabled' = FALSE /\ pc' = "finish"
               ELSE tx_enabled' = tx_enabled /\ pc' = "panicked"
    /\ UNCHANGED << fileVars, cursor, hdrVars, probe_read, loopVars,
                    i2s_cfg, cfg_calls, enable_calls, obsVars >>

\* the elapsed-time report, FreeRtos::delay_ms(5000), Ok(())
Finish ==
    /\ pc = "finish"
    /\ pc' = "returned_ok"
    /\ UNCHANGED << fileVars, cursor, hdrVars, probe_read, loopVars,
                    sinkVars, obsVars >>

Next ==
    \/ CreateSpi
    \/ CreateI2s
    \/ InitSdCard
    \/ OpenFile
    \/ ReadHeader
    \/ DecodeHeader
    \/ SeekProbe
    \/ ProbeRead
    \/ SeekData
    \/ TxEnable
    \/ LoopTest
    \/ LoopRead
    \/ LoopWrite
    \/ TxDisable
    \/ Finish

Spec == Init /\ [][Next]_vars

\* --------------------------------------------------------------- vocabulary
Ended == pc \in {"returned_ok", "returned_err", "panicked"}

Aborted == pc \in {"returned_err", "panicked"}

\* the while loop was left through its condition
LoopExited ==
    \/ pc \in {"tx_disable", "finish", "returned_ok"}
    \/ pc = "panicked" /\ disable_calls > 0

RECURSIVE SumLens(_)
SumLens(w) == IF Len(w) = 0 THEN 0 ELSE w[1][2] + SumLens(Tail(w))

CeilDiv(a, b) == (a + b - 1) \div b

\* LRCLK rates the MAX98357A accepts, as listed above the I2S set-up
SupportedRates == {8000, 16000, 32000, 44100, 48000, 88200, 96000}

Feasible(h) ==
    /\ h.sampling_rate \in SupportedRates
    /\ h.bits_per_sample = 16
    /\ h.num_of_channels \in {1, 2}

TagsOk(b) ==
    /\ SubSeq(b, 1, 4) = TagRIFF
    /\ SubSeq(b, 9, 12) = TagWAVE
    /\ SubSeq(b, 13, 16) = TagFmt
    /\ SubSeq(b, 37, 40) = TagData

HeaderTaken == pc \notin {"start", "create_i2s", "init_sdcard", "open_file",
                          "read_header"}

\* the header was read in full, carries the four tags and a playable format
ValidFile ==
    /\ header_read = BYTES_IN_HEADER
    /\ TagsOk(header)
    /\ hdr.decoded
    /\ Feasible(hdr)

\* ------------------------------------------------------------------ claims

\* C1: for a valid file with a data section of S > 0 bytes, all delivered,
\* the loop makes ceil(S / CHUNK_SIZE) writes, all of CHUNK_SIZE bytes but
\* the last, the last of S mod CHUNK_SIZE bytes (CHUNK_SIZE when that is 0),
\* and the written sizes add up to S, trailing bytes in the file or not.
C1_ChunkedWrites ==
    (/\ ValidFile
     /\ LoopExited
     /\ hdr.size_of_data > 0
     /\ file_len >= BYTES_IN_HEADER + hdr.size_of_data)
    => LET S == hdr.size_of_data
           n == CeilDiv(S, CHUNK_SIZE) IN
       /\ Len(writes) = n
       /\ \A i \in 1..(n - 1) : writes[i][2] = CHUNK_SIZE
       /\ writes[n][2] = IF S % CHUNK_SIZE = 0 THEN CHUNK_SIZE
                                               ELSE S % CHUNK_SIZE
       /\ SumLens(writes) = S

\* C2: for a valid file the bytes consumed never exceed the declared data
\* size, and the loop is left exactly when the two are equal.
C2_CursorWithinData ==
    ValidFile =>
      /\ data_read <= hdr.size_of_data
      /\ (LoopExited => data_read = hdr.size_of_data)

\* C3: once a read in the loop returned 0 bytes with data outstanding, the
\* loop is never entered again and no further file read is made.
C3_EofAborts ==
    (ValidFile /\ eof_seen) => (after_eof = 0 /\ pc \notin {"loop", "read"})

C5_BadTagNoSink ==
    (HeaderTaken /\ header_read = BYTES_IN_HEADER /\ ~TagsOk(header))
    => (~tx_enabled /\ Len(writes) = 0)

\* C6: playing a valid file, main never ends with the transmit channel
\* enabled unless a disable was attempted.
C6_DisableOnAbort ==
    (ValidFile /\ Ended /\ tx_enabled) => disable_calls > 0

\* C7: tx_disable is called at most once, only after the loop was left
\* through its condition; no seek, read, enable or write call follows it,
\* main reaches its end only after it, and nothing happens after main
\* returned.
C7_DisabledOnceAtEnd ==
    /\ disable_calls <= 1
    /\ (disable_calls = 1 =>
          /\ after_disable = 0
          /\ pc \in {"finish", "returned_ok", "panicked"}
          /\ data_read >= hdr.size_of_data)
    /\ (pc \in {"finish", "returned_ok"} =>
          /\ disable_calls = 1
          /\ ~tx_enabled)

C7_Witness ==
    /\ pc = "returned_ok"
    /\ disable_calls = 1
    /\ Len(writes) >= 2

\* C8: a header read that returned fewer than 44 bytes leaves every header
\* field undecoded, the sink never enabled, and no data read or sink write.
C8_TruncatedHeaderAborts ==
    (HeaderTaken /\ header_read < BYTES_IN_HEADER)
    => /\ ~hdr.decoded
       /\ enable_calls = 0
       /\ data_reads = 0
       /\ Len(writes) = 0

\* C9: the I2S driver is configured only once the header is decoded and
\* feasible, and with the header's sample rate, bit depth and channels.
C9_ConfiguredFromHeader ==
    i2s_cfg.created =>
      /\ hdr.decoded
      /\ Feasible(hdr)
      /\ i2s_cfg.rate = hdr.sampling_rate
      /\ i2s_cfg.bits = hdr.bits_per_sample
      /\ i2s_cfg.channels = hdr.num_of_channels

====
